---- MODULE Spec2Model ----
(***************************************************************************)
(* State-machine model of src/bsutils/methseg/hmr.cpp (methpipe "hmr"):    *)
(* load_cpgs, separate_regions, shuffle_cpg_sites, build_domains,          *)
(* get_posterior_cutoff and the filter of main.                            *)
(*                                                                         *)
(* Indices held in reset_points and in the loop counters are the 0-based   *)
(* indices of the C++ code; TLA+ sequences are 1-based, so element i of a  *)
(* vector v is v[i + 1].                                                   *)
(***************************************************************************)
EXTENDS Integers, Sequences, FiniteSets, TLC

VARIABLES
    pc,              \* position in main / in the function under analysis
    cpgs_in,         \* records of the input BED file (load_cpgs: cpgs_in)
    desert_size,     \* main: desert_size (option -d)
    cpgs,            \* vector<SimpleGenomicRegion> cpgs
    meth,            \* vector<pair<double,double>> meth
    reads,           \* vector<size_t> reads
    reset_points,    \* vector<size_t> reset_points
    classes,         \* vector<bool> classes
    post_scores,     \* vector<double> post_scores
    domains,         \* vector<GenomicRegion> domains
    bd,              \* locals of build_domains
    domains_false,   \* vector<GenomicRegion> domains_false (null domain set)
    fdr,             \* main: fdr (option -F), a rational <<num, den>>
    posterior_cutoff,\* main: posterior_cutoff
    domains_filterd, \* main: domains_filterd
    oob              \* TRUE once a vector was read outside its size

vars == <<pc, cpgs_in, desert_size, cpgs, meth, reads, reset_points, classes,
          post_scores, domains, bd, domains_false, fdr, posterior_cutoff,
          domains_filterd, oob>>

(***************************************************************************)
(* Bounds of the model.                                                    *)
(***************************************************************************)
MaxSites == 3      \* records of the input file (pipeline)
MaxClasses == 4    \* sites handed to build_domains
MaxNull == 3       \* domains of the null set handed to get_posterior_cutoff
MaxReal == 2       \* domains filtered by main

\* numeric_limits<double>::max() and numeric_limits<double>::min().  Scores
\* are counted in half units (every score of the model is an even number),
\* so that min(), the least POSITIVE normalised double, lies strictly
\* between 0 and the least positive score; max() lies above every score.
DblMax == 1000
DblMin == 1

\* numeric_limits<size_t>::max(), for a size_t of 31 bits
SizeMax == 2147483647

(***************************************************************************)
(* Input domain of the pipeline (load_cpgs .. shuffle_cpg_sites).          *)
(***************************************************************************)
Chroms == {"chr1", "chr2"}

ChromRank(c) == IF c = "chr1" THEN 1 ELSE 2

\* start coordinates: the gaps between them are 1, 1999, 2000, 2001, 4000
Positions == {1, 2000, 2001, 4001}

\* desert thresholds: the default of main (2000) and a small one; they are
\* genomic distances, below numeric_limits<size_t>::max()
DesertSizes == {1, 2000}

\* fractional methylation levels <<numerator, denominator>>; quarters are
\* exact in binary floating point, so level * reads is computed exactly
MethLevels == {<<1, 4>>, <<3, 4>>}

Coverages == {0, 1, 2}

Keys == Chroms \X Positions

KeyLess(a, b) ==
    \/ ChromRank(a[1]) < ChromRank(b[1])
    \/ a[1] = b[1] /\ a[2] < b[2]

MinKey(S) == CHOOSE a \in S : \A b \in S \ {a} : KeyLess(a, b)

RECURSIVE SortedKeys(_)
SortedKeys(S) ==
    IF S = {} THEN <<>>
    ELSE LET a == MinKey(S) IN <<a>> \o SortedKeys(S \ {a})

\* a file that passes check_sorted: the record keys ks in genome order, with
\* the level and coverage p[k] of each record
Table(ks, p) ==
    [k \in 1..Len(ks) |->
        [chrom |-> ks[k][1], start |-> ks[k][2], end |-> ks[k][2] + 1,
         level |-> p[k][1], cov |-> p[k][2]]]

KeySets == {T \in SUBSET Keys : Cardinality(T) <= MaxSites}

(***************************************************************************)
(* load_cpgs                                                               *)
(***************************************************************************)
\* int(x) of a double x = n/d: truncation toward zero
IntCast(n, d) == IF n >= 0 THEN n \div d ELSE -((-n) \div d)

SimpleGenomicRegion(r) == [chrom |-> r.chrom, start |-> r.start, end |-> r.end]

\* lines 153-158: the count pair of one record
load_meth(r) ==
    LET first == IntCast(r.level[1] * r.cov, r.level[2])
    IN  <<first, r.cov - first>>

load_cpgs(in) ==
    [cpgs  |-> [k \in 1..Len(in) |-> SimpleGenomicRegion(in[k])],
     meth  |-> [k \in 1..Len(in) |-> load_meth(in[k])],
     reads |-> [k \in 1..Len(in) |-> in[k].cov]]

(***************************************************************************)
(* separate_regions                                                        *)
(***************************************************************************)
\* lines 108-119: keep the elements of v whose read count is positive
RECURSIVE EliminateZeroReads(_, _)
EliminateZeroReads(v, r) ==
    IF v = <<>> THEN <<>>
    ELSE (IF Head(r) > 0 THEN <<Head(v)>> ELSE <<>>)
         \o EliminateZeroReads(Tail(v), Tail(r))

same_chrom(a, b) == a.chrom = b.chrom

\* a threshold test that also cuts at a gap of exactly D
IsDesertInclusive(dist, D) == dist >= D

\* line 127
IsDesert(dist, D) == dist > D

\* a - b in size_t arithmetic
SizeSub(a, b) == IF a >= b THEN a - b ELSE SizeMax - (b - a) + 1

\* lines 122-130: the scan; i is the 0-based loop index
RECURSIVE SegregateLoop(_, _, _, _, _)
SegregateLoop(i, prev_cpg, rp, c, D) ==
    IF i >= Len(c) THEN rp
    ELSE LET dist == IF i > 0 /\ same_chrom(c[i + 1], c[i])
                     THEN SizeSub(c[i + 1].start, prev_cpg)
                     ELSE SizeMax
         IN  SegregateLoop(i + 1, c[i + 1].start,
                           IF IsDesert(dist, D) THEN Append(rp, i) ELSE rp,
                           c, D)

separate_regions(D, c, m, r) ==
    LET c2 == EliminateZeroReads(c, r)
    IN  [cpgs  |-> c2,
         meth  |-> EliminateZeroReads(m, r),
         reads |-> EliminateZeroReads(r, r),
         reset_points |-> SegregateLoop(0, 0, <<>>, c2, D)]

(***************************************************************************)
(* shuffle_cpg_sites                                                       *)
(***************************************************************************)
\* std::random_shuffle(m.begin() + first, m.begin() + last): every
\* rearrangement of the elements of [first, last) is a possible result
random_shuffle(m, first, last) ==
    { [k \in 1..Len(m) |-> IF first < k /\ k <= last THEN m[p[k]] ELSE m[k]] :
      p \in Permutations((first + 1)..last) }

\* lines 172-174, from loop index i on; ms is the set of possible contents
RECURSIVE ShuffleLoop(_, _, _)
ShuffleLoop(ms, i, rp) ==
    IF ~(i < Len(rp) - 1) THEN ms
    ELSE ShuffleLoop(UNION {random_shuffle(m, rp[i + 1], rp[i + 2]) : m \in ms},
                     i + 1, rp)

\* the possible contents of meth after shuffle_cpg_sites(rp, m), rp non-empty
shuffle_cpg_sites(rp, m) == ShuffleLoop({m}, 0, rp)

(***************************************************************************)
(* main, lines 278-287 and 351                                             *)
(***************************************************************************)
NoLocals == [i |-> 0, n_cpgs |-> 0, n_domains |-> 0, reset_idx |-> 1,
             prev_end |-> 0, in_domain |-> FALSE, score |-> 0]

Idle == /\ classes = <<>> /\ post_scores = <<>> /\ domains = <<>>
        /\ bd = NoLocals /\ domains_false = <<>> /\ fdr = <<1, 4>>
        /\ posterior_cutoff = 0 /\ domains_filterd = <<>>

Init ==
    /\ pc = "start"
    /\ \E S \in KeySets : \E p \in [1..Cardinality(S) -> MethLevels \X Coverages] :
          cpgs_in = Table(SortedKeys(S), p)
    /\ desert_size \in DesertSizes
    /\ cpgs = <<>> /\ meth = <<>> /\ reads = <<>> /\ reset_points = <<>>
    /\ oob = FALSE
    /\ Idle

Rest == <<classes, post_scores, domains, bd, domains_false, fdr,
          posterior_cutoff, domains_filterd>>

\* line 282
main_load_cpgs ==
    /\ pc = "start"
    /\ LET l == load_cpgs(cpgs_in)
       IN  /\ cpgs' = l.cpgs
           /\ meth' = l.meth
           /\ reads' = l.reads
    /\ pc' = "loaded"
    /\ UNCHANGED <<cpgs_in, desert_size, reset_points, oob, Rest>>

\* line 287
main_separate_regions ==
    /\ pc = "loaded"
    /\ LET s == separate_regions(desert_size, cpgs, meth, reads)
       IN  /\ cpgs' = s.cpgs
           /\ meth' = s.meth
           /\ reads' = s.reads
           /\ reset_points' = s.reset_points
    /\ pc' = "separated"
    /\ UNCHANGED <<cpgs_in, desert_size, oob, Rest>>

\* line 351.  With an empty reset_points, reset_points.size() - 1 wraps to
\* the largest size_t and the loop reads reset_points[0], [1], ... outside
\* the vector: undefined behaviour, the run may crash or go on
main_shuffle_cpg_sites ==
    /\ pc = "separated"
    /\ IF reset_points = <<>>
       THEN /\ oob' = TRUE
            /\ pc' \in {"crashed", "shuffled"}
            /\ meth' = meth
       ELSE /\ meth' \in shuffle_cpg_sites(reset_points, meth)
            /\ pc' = "shuffled"
            /\ oob' = oob
    /\ UNCHANGED <<cpgs_in, desert_size, cpgs, reads, reset_points, Rest>>

Next ==
    \/ main_load_cpgs
    \/ main_separate_regions
    \/ main_shuffle_cpg_sites

Spec == Init /\ [][Next]_vars

(***************************************************************************)
(* build_domains, one loop iteration per step                              *)
(***************************************************************************)
\* GenomicRegion(const SimpleGenomicRegion &): name and score are the
\* constructor's defaults until set_name / set_score are called
GenomicRegion(c) ==
    [chrom |-> c.chrom, start |-> c.start, end |-> c.end,
     name |-> "X", score |-> 0]

toa(n) == ToString(n)

SetBack(doms, d) == [doms EXCEPT ![Len(doms)] = d]

\* closing with the end of the site the loop stands on, not the previous one
CloseDomainAtCurrentSite(b, doms) ==
    [bd |-> [b EXCEPT !.in_domain = FALSE, !.n_cpgs = 0, !.score = 0],
     domains |-> SetBack(doms, [doms[Len(doms)] EXCEPT
                                !.end = cpgs[b.i + 1].end, !.score = b.score])]

\* lines 66-70 and 87-91: close the open domain
CloseDomain(b, doms) ==
    [bd |-> [b EXCEPT !.in_domain = FALSE, !.n_cpgs = 0, !.score = 0],
     domains |-> SetBack(doms, [doms[Len(doms)] EXCEPT !.end = b.prev_end,
                                                       !.score = b.score])]

\* lines 62-73, rp_val being the value read from reset_points[reset_idx]
AtResetPoint(b, doms, rp_val) ==
    IF rp_val = b.i
    THEN LET c == IF b.in_domain THEN CloseDomain(b, doms)
                  ELSE [bd |-> b, domains |-> doms]
         IN  [bd |-> [c.bd EXCEPT !.reset_idx = @ + 1], domains |-> c.domains]
    ELSE [bd |-> b, domains |-> doms]

\* lines 74-92
AtSite(b, doms) ==
    IF classes[b.i + 1]
    THEN LET open == ~b.in_domain
             d1 == IF open
                   THEN Append(doms, [GenomicRegion(cpgs[b.i + 1]) EXCEPT
                                      !.name = "HYPO" \o toa(b.n_domains)])
                   ELSE doms
             b1 == IF open
                   THEN [b EXCEPT !.in_domain = TRUE, !.n_domains = @ + 1]
                   ELSE b
         IN  [bd |-> [b1 EXCEPT !.n_cpgs = @ + 1,
                                !.score = @ + post_scores[b.i + 1]],
              domains |-> d1]
    ELSE IF b.in_domain THEN CloseDomain(b, doms)
    ELSE [bd |-> b, domains |-> doms]

\* lines 60-94: the body of the loop for i = bd.i.  A read of
\* reset_points[reset_idx] with reset_idx >= reset_points.size() is outside
\* the vector and yields an arbitrary size_t
build_domains_iter ==
    /\ pc = "build"
    /\ bd.i < Len(classes)
    /\ \E rp_val \in IF bd.reset_idx < Len(reset_points)
                     THEN {reset_points[bd.reset_idx + 1]}
                     ELSE 0..Len(classes) :
          LET r == AtResetPoint(bd, domains, rp_val)
              a == AtSite(r.bd, r.domains)
          IN  /\ bd' = [a.bd EXCEPT !.prev_end = cpgs[bd.i + 1].end,
                                    !.i = @ + 1]
              /\ domains' = a.domains
    /\ oob' = (oob \/ ~(bd.reset_idx < Len(reset_points)))
    /\ pc' = pc
    /\ UNCHANGED <<cpgs_in, desert_size, cpgs, meth, reads, reset_points,
                   classes, post_scores, domains_false, fdr, posterior_cutoff,
                   domains_filterd>>

\* a return that first closes a domain left open by the loop
build_domains_return_closing ==
    /\ pc = "build"
    /\ ~(bd.i < Len(classes))
    /\ LET c == IF bd.in_domain THEN CloseDomain(bd, domains)
                ELSE [bd |-> bd, domains |-> domains]
       IN  bd' = c.bd /\ domains' = c.domains
    /\ pc' = "built"
    /\ UNCHANGED <<cpgs_in, desert_size, cpgs, meth, reads, reset_points,
                   classes, post_scores, domains_false, fdr,
                   posterior_cutoff, domains_filterd, oob>>

\* lines 60 and 95-96: the loop ends and the function returns
build_domains_return ==
    /\ pc = "build"
    /\ ~(bd.i < Len(classes))
    /\ pc' = "built"
    /\ UNCHANGED <<cpgs_in, desert_size, cpgs, meth, reads, reset_points,
                   classes, post_scores, domains, bd, domains_false, fdr,
                   posterior_cutoff, domains_filterd, oob>>

\* inputs of build_domains: n retained sites, a chain-start list that begins
\* with 0 and ends with the site count, labels and scores of a decoding
PostScoreValues == {-2, 2, 6}

CpgAt(k) == [chrom |-> "chr1", start |-> 10 * k, end |-> 10 * k + 1]

RECURSIVE SortedInts(_)
SortedInts(S) ==
    IF S = {} THEN <<>>
    ELSE LET a == CHOOSE x \in S : \A y \in S : x <= y
         IN  <<a>> \o SortedInts(S \ {a})

InitDomains ==
    /\ pc = "build"
    /\ \E n \in 0..MaxClasses :
          /\ cpgs = [k \in 1..n |-> CpgAt(k)]
          /\ \E S \in SUBSET (1..(n - 1)) :
                reset_points = SortedInts({0, n} \cup S)
          /\ classes \in [1..n -> BOOLEAN]
          /\ post_scores \in [1..n -> PostScoreValues]
    /\ domains = <<>>
    /\ bd = NoLocals
    /\ oob = FALSE
    /\ cpgs_in = <<>> /\ desert_size = 2000 /\ meth = <<>> /\ reads = <<>>
    /\ domains_false = <<>> /\ fdr = <<1, 4>>
    /\ posterior_cutoff = 0 /\ domains_filterd = <<>>

NextDomains ==
    \/ build_domains_iter
    \/ build_domains_return

SpecDomains == InitDomains /\ [][NextDomains]_vars

(***************************************************************************)
(* get_posterior_cutoff and the filter of main                             *)
(***************************************************************************)
\* fdr < g, fdr <= g for rationals <<num, den>> with den > 0
RatLess(f, g) == f[1] * g[2] < g[1] * f[2]

RatLeq(f, g) == f[1] * g[2] <= g[1] * f[2]

\* std::sort(scores.begin(), scores.end()): ascending
RECURSIVE Insert(_, _)
Insert(x, v) ==
    IF v = <<>> THEN <<x>>
    ELSE IF x <= Head(v) THEN <<x>> \o v
    ELSE <<Head(v)>> \o Insert(x, Tail(v))

RECURSIVE sort(_)
sort(v) == IF v = <<>> THEN <<>> ELSE Insert(Head(v), sort(Tail(v)))

\* line 194: static_cast<size_t>(domains.size() * (1 - fdr))
QuantileIndex(n, f) == IntCast(n * (f[2] - f[1]), f[2])

\* lines 196-201: from position i on, the first position whose score is
\* greater than scores[index]; index itself when there is none
RECURSIVE StringentIndex(_, _, _)
StringentIndex(scores, index, i) ==
    IF ~(i < Len(scores)) THEN index
    ELSE IF scores[i + 1] > scores[index + 1] THEN i
    ELSE StringentIndex(scores, index, i + 1)

\* the doubles a read outside the vector can yield
AnyDouble == {-DblMax, -2, -DblMin, 0, DblMin, 2, DblMax}

\* lines 187-203 read scores[index] with index >= scores.size()
ReadsOutside(doms, f) ==
    /\ RatLess(<<0, 1>>, f) /\ RatLeq(f, <<1, 1>>)
    /\ ~(QuantileIndex(Len(doms), f) < Len(doms))

\* the values get_posterior_cutoff(doms, f) can return
get_posterior_cutoff(doms, f) ==
    IF RatLeq(f, <<0, 1>>) THEN {DblMax}
    ELSE IF RatLess(<<1, 1>>, f) THEN {DblMin}
    ELSE LET scores == sort([k \in 1..Len(doms) |-> doms[k].score])
             index  == QuantileIndex(Len(doms), f)
         IN  IF index < Len(scores)
             THEN {scores[StringentIndex(scores, index, index) + 1]}
             ELSE AnyDouble

\* line 374.  A read outside the vector is undefined behaviour: the run may
\* crash, or go on with whatever the read yields
main_get_posterior_cutoff ==
    /\ pc = "null_built"
    /\ posterior_cutoff' \in get_posterior_cutoff(domains_false, fdr)
    /\ oob' = (oob \/ ReadsOutside(domains_false, fdr))
    /\ pc' \in IF ReadsOutside(domains_false, fdr) THEN {"cutoff", "crashed"}
               ELSE {"cutoff"}
    /\ UNCHANGED <<cpgs_in, desert_size, cpgs, meth, reads, reset_points,
                   classes, post_scores, domains, bd, domains_false, fdr,
                   domains_filterd>>

\* line 383
Admits(cutoff, d) == d.score >= cutoff

\* lines 381-384
main_filter ==
    /\ pc = "cutoff"
    /\ domains_filterd' = SelectSeq(domains, LAMBDA d : Admits(posterior_cutoff, d))
    /\ pc' = "filtered"
    /\ UNCHANGED <<cpgs_in, desert_size, cpgs, meth, reads, reset_points,
                   classes, post_scores, domains, bd, domains_false, fdr,
                   posterior_cutoff, oob>>

\* inputs: the domains of the data and of the shuffled data as build_domains
\* leaves them (named HYPO0, HYPO1, ...), and the target fdr
ScoreValues == {-2, 0, 2, 4}

FdrValues == {<<-1, 4>>, <<0, 4>>, <<1, 4>>, <<2, 4>>, <<3, 4>>, <<4, 4>>,
              <<5, 4>>, <<6, 4>>}

DomainAt(k, sc) ==
    [GenomicRegion(CpgAt(k)) EXCEPT !.name = "HYPO" \o toa(k - 1), !.score = sc]

DomainLists(max) ==
    UNION { { [k \in 1..n |-> DomainAt(k, sc[k])] : sc \in [1..n -> ScoreValues] } :
            n \in 0..max }

InitCutoff ==
    /\ pc = "null_built"
    /\ domains \in DomainLists(MaxReal)
    /\ domains_false \in DomainLists(MaxNull)
    /\ fdr \in FdrValues
    /\ posterior_cutoff = 0
    /\ domains_filterd = <<>>
    /\ oob = FALSE
    /\ cpgs_in = <<>> /\ desert_size = 2000 /\ cpgs = <<>> /\ meth = <<>>
    /\ reads = <<>> /\ reset_points = <<>> /\ classes = <<>>
    /\ post_scores = <<>> /\ bd = NoLocals

NextCutoff ==
    \/ main_get_posterior_cutoff
    \/ main_filter

SpecCutoff == InitCutoff /\ [][NextCutoff]_vars

(***************************************************************************)
(* Properties of the pipeline (specification Spec)                         *)
(***************************************************************************)
\* the records of the input with positive coverage, in input order
Retained == SelectSeq(cpgs_in, LAMBDA r : r.cov > 0)

IsResetPoint(i) == \E k \in DOMAIN reset_points : reset_points[k] = i

Separated == pc \in {"separated", "shuffled", "crashed"}

\* C1: after separate_regions the site table holds exactly the records with
\* positive coverage, and a retained site i is a chain start (a reset point)
\* exactly when it is the first retained site, or lies on another chromosome
\* than retained site i-1, or start(i) - start(i-1) > desert_size.  With
\* desert_size 2000, gaps of 1999 and 2000 keep a chain and 2001 cuts it.
C1_BoundaryExactlyAtDeserts ==
    Separated =>
        /\ cpgs = [k \in 1..Len(Retained) |-> SimpleGenomicRegion(Retained[k])]
        /\ \A i \in 0..(Len(Retained) - 1) :
              IsResetPoint(i) <=>
                 \/ i = 0
                 \/ Retained[i + 1].chrom # Retained[i].chrom
                 \/ Retained[i + 1].start - Retained[i].start > desert_size

\* three records on one chromosome at 2000, 2001 and 4001, the middle one
\* without coverage: the retained sites are 2001 apart and form two chains
C1_Witness ==
    /\ pc = "separated"
    /\ desert_size = 2000
    /\ Len(cpgs_in) = 3
    /\ cpgs_in[2].cov = 0
    /\ Len(cpgs) = 2
    /\ cpgs[1].chrom = cpgs[2].chrom
    /\ cpgs[1].start = 2000 /\ cpgs[2].start = 4001
    /\ reset_points = <<0, 1>>

\* C2: for a non-empty site table (at least one site retained),
\* reset_points is strictly increasing, starts with index 0 and ends with
\* the number of retained sites.
C2_ResetPointsEndWithSentinel ==
    (pc = "separated" /\ cpgs # <<>>) =>
        /\ reset_points # <<>>
        /\ reset_points[1] = 0
        /\ \A k \in 1..(Len(reset_points) - 1) :
              reset_points[k] < reset_points[k + 1]
        /\ reset_points[Len(reset_points)] = Len(cpgs)

\* the chains of the retained sites: from each reset point up to the next
\* one, the last chain up to the end of the table; <<first, last + 1>>
Chains ==
    { <<reset_points[k],
        IF k < Len(reset_points) /\ reset_points[k + 1] <= Len(cpgs)
        THEN reset_points[k + 1] ELSE Len(cpgs)>> :
      k \in {j \in DOMAIN reset_points : reset_points[j] < Len(cpgs)} }

Segment(m, ch) == [k \in 1..(ch[2] - ch[1]) |-> m[ch[1] + k]]

Count(v, x) == Cardinality({k \in DOMAIN v : v[k] = x})

SameBag(a, b) ==
    /\ Len(a) = Len(b)
    /\ \A k \in DOMAIN a : Count(a, a[k]) = Count(b, a[k])

\* meth as separate_regions leaves it, before the shuffle
MethBefore ==
    LET l == load_cpgs(cpgs_in)
    IN  separate_regions(desert_size, l.cpgs, l.meth, l.reads).meth

\* C8: shuffle_cpg_sites leaves in every chain a permutation of the chain's
\* count pairs, and every chain (the last one included) that holds two
\* different pairs can come out in a changed order.
C8_ShuffleReachesEveryChain ==
    /\ pc = "shuffled" =>
          \A ch \in Chains : SameBag(Segment(meth, ch), Segment(MethBefore, ch))
    /\ pc = "separated" =>
          \A ch \in Chains :
             (\E j, k \in DOMAIN Segment(meth, ch) :
                 Segment(meth, ch)[j] # Segment(meth, ch)[k])
             => \E m2 \in shuffle_cpg_sites(reset_points, meth) :
                   Segment(m2, ch) # Segment(meth, ch)

\* m is a nearest integer of n/d (either neighbour at a tie)
IsNearestInteger(m, n, d) ==
    /\ 2 * (d * m - n) <= d
    /\ 2 * (n - d * m) <= d

\* C9: load_cpgs sets methylated_count = round(score * coverage) and
\* unmethylated_count = coverage - methylated_count for every record.
C9_CountsAreRounded ==
    pc = "loaded" =>
        \A k \in DOMAIN cpgs_in :
           LET n == cpgs_in[k].level[1] * cpgs_in[k].cov
               d == cpgs_in[k].level[2]
           IN  /\ IsNearestInteger(meth[k][1], n, d)
               /\ meth[k][2] = cpgs_in[k].cov - meth[k][1]

(***************************************************************************)
(* Properties of build_domains (specification SpecDomains)                 *)
(***************************************************************************)
NSites == Len(classes)

\* the chain of site i: the number of chain starts at or before i
ChainOf(i) == Cardinality({k \in DOMAIN reset_points : reset_points[k] <= i})

Foreground(i) == i \in 0..(NSites - 1) /\ classes[i + 1]

Joined(i, j) == Foreground(i) /\ Foreground(j) /\ ChainOf(i) = ChainOf(j)

\* <<a, b>>: sites a..b are a maximal run of foreground sites of one chain
IsRun(a, b) ==
    /\ a <= b
    /\ \A i \in a..b : Joined(a, i)
    /\ ~Joined(a - 1, a)
    /\ ~Joined(b, b + 1)

Runs == {r \in (0..(NSites - 1)) \X (0..(NSites - 1)) : IsRun(r[1], r[2])}

\* the runs in site order
RunSeq ==
    LET runs == Runs
        starts == SortedInts({r[1] : r \in runs})
    IN  [k \in 1..Len(starts) |-> CHOOSE r \in runs : r[1] = starts[k]]

RECURSIVE SumScores(_, _)
SumScores(a, b) ==
    IF a > b THEN 0 ELSE post_scores[a + 1] + SumScores(a + 1, b)

\* the domains build_domains closed: all but the one still open
Closed == IF bd.in_domain THEN SubSeq(domains, 1, Len(domains) - 1) ELSE domains

\* C3: every closed domain covers exactly one maximal run of foreground
\* sites of a single chain, from the start of the run's first site to the
\* end of the run's last site (the k-th closed domain covers the k-th run);
\* a run cut by a chain boundary ends with the last site before the boundary.
C3_ClosedDomainsAreRuns ==
    pc = "built" =>
        LET runs == RunSeq
        IN  /\ Len(Closed) <= Len(runs)
            /\ \A k \in DOMAIN Closed :
                  /\ Closed[k].chrom = cpgs[runs[k][1] + 1].chrom
                  /\ Closed[k].start = cpgs[runs[k][1] + 1].start
                  /\ Closed[k].end = cpgs[runs[k][2] + 1].end

\* a chain boundary between two foreground sites, both domains closed
C3_Witness ==
    /\ pc = "built"
    /\ Len(Closed) >= 2
    /\ \E k \in DOMAIN reset_points :
          /\ 0 < reset_points[k] /\ reset_points[k] < NSites
          /\ Foreground(reset_points[k] - 1) /\ Foreground(reset_points[k])
          /\ \E j \in 1..(Len(Closed) - 1) :
                /\ Closed[j].end = cpgs[reset_points[k]].end
                /\ Closed[j + 1].start = cpgs[reset_points[k] + 1].start

\* C4: every domain of the returned list has as score the sum of the
\* post_scores of its member sites, and the names are HYPO0, HYPO1, ...
C4_ScoreIsSumOverMembers ==
    pc = "built" =>
        LET runs == RunSeq
        IN  /\ Len(domains) = Len(runs)
            /\ \A k \in DOMAIN domains :
                  /\ domains[k].score = SumScores(runs[k][1], runs[k][2])
                  /\ domains[k].name = "HYPO" \o ToString(k - 1)

LastForeground == NSites > 0 /\ classes[NSites]

C6_BoundaryCutoffsAdmitNoneOrAll ==
    pc = "filtered" =>
        /\ RatLeq(fdr, <<0, 1>>) =>
              posterior_cutoff = DblMax /\ domains_filterd = <<>>
        /\ RatLess(<<1, 1>>, fdr) => domains_filterd = domains

\* C7: for a fixed null domain set and targets fdr1 < fdr2 anywhere on the
\* real line, get_posterior_cutoff(fdr1) >= get_posterior_cutoff(fdr2)
\* (compared wherever both calls return a defined value).
C7_CutoffMonotoneInFdr ==
    \A f1, f2 \in FdrValues :
        (/\ pc = "filtered"
         /\ RatLess(f1, f2)
         /\ ~ReadsOutside(domains_false, f1)
         /\ ~ReadsOutside(domains_false, f2)) =>
            \A c1 \in get_posterior_cutoff(domains_false, f1) :
                \A c2 \in get_posterior_cutoff(domains_false, f2) : c1 >= c2

\* C10: for 0 < fdr <= 1 and every null domain set, the empty one included,
\* get_posterior_cutoff reads scores only at positions below scores.size().
C10_CutoffReadsInsideScores ==
    (pc \in {"cutoff", "crashed", "filtered"}
        /\ RatLess(<<0, 1>>, fdr) /\ RatLeq(fdr, <<1, 1>>)) => ~oob

====
